---- MODULE Spec2Model ----
(***************************************************************************)
(* Model of the "dust" weather station main program (src/main.py): the     *)
(* boot sequence, the acquire / send / sleep loop, the CSV record          *)
(* construction and the syslog framing.                                    *)
(*                                                                         *)
(* Text is modelled as sequences of one-character strings.  Sensor values  *)
(* are binary floats in the program; here a value v stands for the float   *)
(* v/8, which is exactly representable, so that the "{:0.Nf}" renderings   *)
(* are computed exactly (round half to even on the exact value).           *)
(* Time is counted in tenths of a second.                                  *)
(***************************************************************************)
EXTENDS Integers, Sequences, FiniteSets, TLC

\* ---- bounds of the model ------------------------------------------------
MaxCycles == 2
MaxProcDelay == 12

\* ---- program constants ---------------------------------------------------
NUM_DOTS == 4
SLEEP_MINS == 5
SleepTicks == 600
PulseTicks == 1
\* rfc5424.Facility.LOCAL3, rfc5424.Severity.INFO and .NOTICE: the names the
\* program uses, with their RFC 5424 codes
LOCAL3 == 19
INFO == 6
NOTICE == 5

LF == "\n"
APP_NAME == << "d", "u", "s", "t" >>

\* ---- text helpers --------------------------------------------------------
DigitChars == << "0", "1", "2", "3", "4", "5", "6", "7", "8", "9" >>

RECURSIVE DecStr(_)
DecStr(n) ==
    IF n < 10 THEN << DigitChars[n + 1] >>
    ELSE DecStr(n \div 10) \o << DigitChars[(n % 10) + 1] >>

RECURSIVE ZeroPad(_, _)
ZeroPad(s, width) ==
    IF Len(s) >= width THEN s ELSE ZeroPad(<< "0" >> \o s, width)

RECURSIVE Pow10(_)
Pow10(d) ==
    IF d = 0 THEN 1 ELSE 10 * Pow10(d - 1)

Abs(v) ==
    IF v < 0 THEN -v ELSE v

RoundHalfEven(n, m) ==
    LET q == n \div m
        r == n % m
    IN  IF 2 * r < m THEN q
        ELSE IF 2 * r > m THEN q + 1
        ELSE IF q % 2 = 0 THEN q ELSE q + 1

\* "{:0.<d>f}".format(v/8)
FormatFixed(v, d) ==
    LET q    == RoundHalfEven(Abs(v) * Pow10(d), 8)
        ip   == DecStr(q \div Pow10(d))
        fp   == ZeroPad(DecStr(q % Pow10(d)), d)
        sign == IF v < 0 THEN << "-" >> ELSE << >>
    IN  IF d = 0 THEN sign \o ip ELSE sign \o ip \o << "." >> \o fp

\* ---- clock ---------------------------------------------------------------
ClockStart == [year |-> 2024, mon |-> 1, mday |-> 2, hour |-> 3, min |-> 4, sec |-> 5]

\* self.ds1307.datetime when `t` tenths of a second have passed since start
Datetime(t) ==
    LET s == ClockStart.hour * 3600 + ClockStart.min * 60 + ClockStart.sec + (t \div 10)
    IN  [year |-> ClockStart.year, mon |-> ClockStart.mon, mday |-> ClockStart.mday,
         hour |-> (s \div 3600) % 24, min |-> (s \div 60) % 60, sec |-> s % 60]

\* rfc5424.FormatTimestamp
FormatTimestamp(dt) ==
    ZeroPad(DecStr(dt.year), 4) \o << "-" >> \o ZeroPad(DecStr(dt.mon), 2) \o << "-" >>
    \o ZeroPad(DecStr(dt.mday), 2) \o << "T" >> \o ZeroPad(DecStr(dt.hour), 2) \o << ":" >>
    \o ZeroPad(DecStr(dt.min), 2) \o << ":" >> \o ZeroPad(DecStr(dt.sec), 2) \o << "Z" >>

\* rfc5424.FormatSyslog
FormatSyslog(facility, severity, timestamp, hostname, app_name, msg) ==
    << "<" >> \o DecStr(facility * 8 + severity) \o << ">", "1", " " >>
    \o timestamp \o << " " >> \o hostname \o << " " >> \o app_name
    \o << " ", "-", " ", "-", " ", "-", " " >> \o msg

\* ---- inputs --------------------------------------------------------------
IPADDR == << "1", "0", ".", "0", ".", "0", ".", "7" >>

ResetReasons ==
    { << "P", "O", "W", "E", "R", "_", "O", "N" >>,
      << "W", "A", "T", "C", "H", "D", "O", "G" >> }

SysImplementation == << "c", "i", "r", "c", "u", "i", "t", "p", "y", "t", "h", "o", "n" >>

\* time taken by the sensor reads of one AcquireData, after its clock read
ProcDelays == { 0, MaxProcDelay }

\* one complete set of sensor values (in eighths): htu21d, mpl3115, sps30.read()
Samples ==
    { [temperature |-> 170, relative_humidity |-> 382, pressure |-> 787368,
       x |-> ("tps" :> 10 @@ "pm10 standard" :> 25 @@ "pm25 standard" :> 34
              @@ "pm40 standard" :> 40 @@ "pm100 standard" :> 47
              @@ "particles 05um" :> 960 @@ "particles 10um" :> 760
              @@ "particles 25um" :> 320 @@ "particles 40um" :> 96
              @@ "particles 100um" :> 24)],
      [temperature |-> -3, relative_humidity |-> 800, pressure |-> 810004,
       x |-> ("tps" :> 5 @@ "pm10 standard" :> 1 @@ "pm25 standard" :> 2
              @@ "pm40 standard" :> 3 @@ "pm100 standard" :> 4
              @@ "particles 05um" :> 12 @@ "particles 10um" :> 20
              @@ "particles 25um" :> 9 @@ "particles 40um" :> 7
              @@ "particles 100um" :> 0)] }

SendOutcomes == { "ok", "partial", "fail" }
AcquireOutcomes == { "ok", "SensorFault", "DeviceFault" }

\* ---- state ---------------------------------------------------------------
VARIABLES
    pc,         \* position of the main script
    dots,       \* self.dots: colour of each LED of the dotstar string
    ws,         \* self.ws: state of the socket to the syslog server
    now,        \* wall clock, tenths of a second since start
    result,     \* main's `result`: the CSV record of the current cycle
    reading,    \* history: the sensor values read by the latest AcquireData
    cycle,      \* number of loop iterations started
    sleepIter,  \* loop variable of Sleep
    sent,       \* history: every message given to WriteToSyslog, with the bytes
                \* it handed to self.ws.socket.send and what became of them
    fault,      \* the uncaught exception that ended the program, or "none"
    connects,   \* history: number of calls of ConnectToSyslog
    slept,      \* history: time slept so far in the current call of Sleep
    pulseAt     \* history: value of `slept` at each pulse of this call of Sleep

vars == << pc, dots, ws, now, result, reading, cycle, sleepIter, sent, fault, connects, slept, pulseAt >>

\* ---- methods of TheApp ---------------------------------------------------
SetDots(r, g, b) ==
    [dot \in 0 .. (NUM_DOTS - 1) |-> << r, g, b >>]

\* the column-header row of WriteCsvHeaders
CsvHeaders ==
    <<
       "\"", "t", "i", "m", "e", "s", "t", "a", "m", "p", "\"", ",", "\"", "t", "e", "m",
       "p", "[", "C", "]", "\"", ",", "\"", "R", "H", "[", "%", "]", "\"", ",", "\"", "p",
       "r", "e", "s", "[", "p", "a", "]", "\"", ",", "\"", "t", "p", "s", "[", "u", "m",
       "]", "\"", ",", "\"", "1", ".", "0", "u", "m", " ", "m", "a", "s", "s", "[", "u",
       "g", "/", "m", "^", "3", "]", "\"", ",", "\"", "2", ".", "5", "u", "m", " ", "m",
       "a", "s", "s", "[", "u", "g", "/", "m", "^", "3", "]", "\"", ",", "\"", "4", ".",
       "0", "u", "m", " ", "m", "a", "s", "s", "[", "u", "g", "/", "m", "^", "3", "]",
       "\"", ",", "\"", "1", "0", "u", "m", " ", "m", "a", "s", "s", "[", "u", "g", "/",
       "m", "^", "3", "]", "\"", ",", "\"", "0", ".", "5", "u", "m", " ", "c", "o", "u",
       "n", "t", "[", "#", "/", "c", "m", "^", "3", "]", "\"", ",", "\"", "1", ".", "0",
       "u", "m", " ", "c", "o", "u", "n", "t", "[", "#", "/", "c", "m", "^", "3", "]",
       "\"", ",", "\"", "2", ".", "5", "u", "m", " ", "c", "o", "u", "n", "t", "[", "#",
       "/", "c", "m", "^", "3", "]", "\"", ",", "\"", "4", ".", "0", "u", "m", " ", "c",
       "o", "u", "n", "t", "[", "#", "/", "c", "m", "^", "3", "]", "\"", ",", "\"", "1",
       "0", "u", "m", " ", "c", "o", "u", "n", "t", "[", "#", "/", "c", "m", "^", "3",
       "]", "\"" >>

\* the text of the BOOT notice
BootMessage(reset_reason) ==
    << "B", "O", "O", "T", " " >> \o reset_reason \o << " " >> \o SysImplementation

\* AcquireData with the two humidity/temperature columns exchanged
AcquireData_Swapped(t, s) ==
    LET ts == FormatTimestamp(Datetime(t))
        h  == FormatFixed(s.relative_humidity, 1) \o << "," >>
              \o FormatFixed(s.temperature, 1) \o << "," >>
              \o FormatFixed(s.pressure, 0) \o << "," >>
        x  == s.x
        p1 == FormatFixed(x["tps"], 3) \o << "," >>
        p2 == FormatFixed(x["pm10 standard"], 1) \o << "," >>
              \o FormatFixed(x["pm25 standard"], 1) \o << "," >>
              \o FormatFixed(x["pm40 standard"], 1) \o << "," >>
              \o FormatFixed(x["pm100 standard"], 1) \o << "," >>
        p3 == FormatFixed(x["particles 05um"], 0) \o << "," >>
              \o FormatFixed(x["particles 10um"], 0) \o << "," >>
              \o FormatFixed(x["particles 25um"], 0) \o << "," >>
              \o FormatFixed(x["particles 40um"], 0) \o << "," >>
              \o FormatFixed(x["particles 100um"], 0)
    IN  << "\"" >> \o ts \o << "\"", "," >> \o h \o p1 \o p2 \o p3

\* AcquireData: the record built from the clock read at time t and sample s
AcquireData(t, s) ==
    LET ts == FormatTimestamp(Datetime(t))
        h  == FormatFixed(s.temperature, 1) \o << "," >>
              \o FormatFixed(s.relative_humidity, 1) \o << "," >>
              \o FormatFixed(s.pressure, 0) \o << "," >>
        x  == s.x
        p1 == FormatFixed(x["tps"], 3) \o << "," >>
        p2 == FormatFixed(x["pm10 standard"], 1) \o << "," >>
              \o FormatFixed(x["pm25 standard"], 1) \o << "," >>
              \o FormatFixed(x["pm40 standard"], 1) \o << "," >>
              \o FormatFixed(x["pm100 standard"], 1) \o << "," >>
        p3 == FormatFixed(x["particles 05um"], 0) \o << "," >>
              \o FormatFixed(x["particles 10um"], 0) \o << "," >>
              \o FormatFixed(x["particles 25um"], 0) \o << "," >>
              \o FormatFixed(x["particles 40um"], 0) \o << "," >>
              \o FormatFixed(x["particles 100um"], 0)
    IN  << "\"" >> \o ts \o << "\"", "," >> \o h \o p1 \o p2 \o p3

\* WriteToSyslog without the terminating line feed
SyslogBytes_NoLF(message, severity, t) ==
    [facility |-> LOCAL3,
     severity |-> severity,
     data     |-> FormatSyslog(LOCAL3, severity, FormatTimestamp(Datetime(t)),
                               IPADDR, APP_NAME, message)]

\* WriteToSyslog passing a facility code outside the syslog range
SyslogBytes_BadFacility(message, severity, t) ==
    [facility |-> LOCAL3 + 5,
     severity |-> severity,
     data     |-> FormatSyslog(LOCAL3 + 5, severity, FormatTimestamp(Datetime(t)),
                               IPADDR, APP_NAME, message) \o << LF >>]

\* WriteToSyslog stamping every frame with the clock value read at start
SyslogBytes_StaleClock(message, severity, t) ==
    [facility |-> LOCAL3,
     severity |-> severity,
     data     |-> FormatSyslog(LOCAL3, severity, FormatTimestamp(Datetime(0)),
                               IPADDR, APP_NAME, message) \o << LF >>]

\* WriteToSyslog: the bytes handed to the socket for `message` at time t
SyslogBytes(message, severity, t) ==
    [facility |-> LOCAL3,
     severity |-> severity,
     data     |-> FormatSyslog(LOCAL3, severity, FormatTimestamp(Datetime(t)),
                               IPADDR, APP_NAME, message) \o << LF >>]

\* number of bytes the socket takes for each outcome of send
Written(outcome, data) ==
    IF outcome = "ok" THEN Len(data)
    ELSE IF outcome = "partial" THEN Len(data) \div 2
    ELSE 0

\* WriteToSyslog swallowing the exception of a failing send
WriteToSyslog_IgnoreFailure(kind, message, severity, outcome, nextpc) ==
    LET b == SyslogBytes(message, severity, now)
    IN  /\ sent' = Append(sent, [kind |-> kind, cycle |-> cycle, message |-> message,
                                 facility |-> b.facility, severity |-> b.severity,
                                 data |-> b.data, outcome |-> outcome,
                                 written |-> Written(outcome, b.data)])
        /\ pc' = nextpc
        /\ ws' = IF outcome = "fail" THEN "Faulted" ELSE ws
        /\ UNCHANGED fault

\* WriteToSyslog: frame the message, send it; a failing send raises and
\* nothing catches it
WriteToSyslog(kind, message, severity, outcome, nextpc) ==
    LET b == SyslogBytes(message, severity, now)
    IN  /\ sent' = Append(sent, [kind |-> kind, cycle |-> cycle, message |-> message,
                                 facility |-> b.facility, severity |-> b.severity,
                                 data |-> b.data, outcome |-> outcome,
                                 written |-> Written(outcome, b.data)])
        /\ IF outcome = "fail"
           THEN /\ pc' = "crashed"
                /\ fault' = "TransportFault"
                /\ ws' = "Faulted"
           ELSE /\ pc' = nextpc
                /\ UNCHANGED << fault, ws >>

\* ---- the main script -----------------------------------------------------
Init ==
    /\ pc = "init"
    /\ dots = << >>
    /\ ws = "Disconnected"
    /\ now = 0
    /\ result = << >>
    /\ reading = << >>
    /\ cycle = 0
    /\ sleepIter = 0
    /\ sent = << >>
    /\ fault = "none"
    /\ connects = 0
    /\ slept = 0
    /\ pulseAt = << >>

InitializeDevices ==
    /\ pc = "init"
    /\ dots' = SetDots(0, 0, 0)
    /\ pc' = "green"
    /\ UNCHANGED << ws, now, result, reading, cycle, sleepIter, sent, fault, connects, slept, pulseAt >>

\* main sending the BOOT notice without calling ConnectToSyslog first
BootSetDots_SkipConnect ==
    /\ pc = "green"
    /\ dots' = SetDots(0, 255, 0)
    /\ pc' = "boot"
    /\ UNCHANGED << ws, now, result, reading, cycle, sleepIter, sent, fault, connects, slept, pulseAt >>

BootSetDots ==
    /\ pc = "green"
    /\ dots' = SetDots(0, 255, 0)
    /\ pc' = "connect"
    /\ UNCHANGED << ws, now, result, reading, cycle, sleepIter, sent, fault, connects, slept, pulseAt >>

\* ConnectToSyslog swallowing the exception of a failed connection
ConnectToSyslog_Swallow ==
    /\ pc = "connect"
    /\ connects' = connects + 1
    /\ \E ok \in BOOLEAN :
          IF ok
          THEN /\ ws' = "Connected"
               /\ UNCHANGED fault
          ELSE /\ fault' = "ConnectFault"
               /\ UNCHANGED ws
    /\ pc' = "boot"
    /\ UNCHANGED << dots, now, result, reading, cycle, sleepIter, sent, slept, pulseAt >>

ConnectToSyslog ==
    /\ pc = "connect"
    /\ connects' = connects + 1
    /\ \E ok \in BOOLEAN :
          IF ok
          THEN /\ ws' = "Connected"
               /\ pc' = "boot"
               /\ UNCHANGED fault
          ELSE /\ pc' = "crashed"
               /\ fault' = "ConnectFault"
               /\ UNCHANGED ws
    /\ UNCHANGED << dots, now, result, reading, cycle, sleepIter, sent, slept, pulseAt >>

\* the BOOT notice sent with WriteToSyslog's default severity
WriteBoot_DefaultSeverity ==
    /\ pc = "boot"
    /\ \E rr \in ResetReasons, o \in SendOutcomes :
          WriteToSyslog("boot", BootMessage(rr), INFO, o, "headers")
    /\ UNCHANGED << dots, now, result, reading, cycle, sleepIter, connects, slept, pulseAt >>

WriteBoot ==
    /\ pc = "boot"
    /\ \E rr \in ResetReasons, o \in SendOutcomes :
          WriteToSyslog("boot", BootMessage(rr), NOTICE, o, "headers")
    /\ UNCHANGED << dots, now, result, reading, cycle, sleepIter, connects, slept, pulseAt >>

WriteCsvHeaders ==
    /\ pc = "headers"
    /\ \E o \in SendOutcomes :
          WriteToSyslog("header", CsvHeaders, INFO, o, "busy")
    /\ UNCHANGED << dots, now, result, reading, cycle, sleepIter, connects, slept, pulseAt >>

LoopSetDots ==
    /\ pc = "busy"
    /\ cycle < MaxCycles
    /\ cycle' = cycle + 1
    /\ dots' = SetDots(0, 0, 255)
    /\ pc' = "acquire"
    /\ UNCHANGED << ws, now, result, reading, sleepIter, sent, fault, connects, slept, pulseAt >>

LoopAcquireData ==
    /\ pc = "acquire"
    /\ \E s \in Samples, o \in AcquireOutcomes, d \in ProcDelays :
          /\ now' = now + d
          /\ IF o = "ok"
             THEN /\ result' = AcquireData(now, s)
                  /\ reading' = s
                  /\ pc' = "write"
                  /\ UNCHANGED fault
             ELSE /\ pc' = "crashed"
                  /\ fault' = o
                  /\ UNCHANGED << result, reading >>
    /\ UNCHANGED << dots, ws, cycle, sleepIter, sent, connects, slept, pulseAt >>

\* the main loop sending the record again after a short write
WriteCsvData_Resend ==
    /\ pc = "write"
    /\ \E o \in SendOutcomes :
          WriteToSyslog("data", result, INFO, o, IF o = "partial" THEN "write" ELSE "clear")
    /\ UNCHANGED << dots, now, result, reading, cycle, sleepIter, connects, slept, pulseAt >>

WriteCsvData ==
    /\ pc = "write"
    /\ \E o \in SendOutcomes :
          WriteToSyslog("data", result, INFO, o, "clear")
    /\ UNCHANGED << dots, now, result, reading, cycle, sleepIter, connects, slept, pulseAt >>

\* Sleep looping once too often
SleepRange_OffByOne ==
    0 .. SLEEP_MINS

\* the values taken by the loop variable of Sleep
SleepRange ==
    0 .. (SLEEP_MINS - 1)

\* the main loop starting at WriteCsvHeaders instead of after it
SleepLoop_Headers(i) ==
    IF i \in SleepRange THEN "sleep60" ELSE "headers"

\* where the script goes when Sleep's loop variable would become i
SleepLoop(i) ==
    IF i \in SleepRange THEN "sleep60" ELSE "busy"

LoopClearDots ==
    /\ pc = "clear"
    /\ dots' = SetDots(0, 0, 0)
    /\ sleepIter' = 0
    /\ slept' = 0
    /\ pulseAt' = << >>
    /\ pc' = SleepLoop(0)
    /\ UNCHANGED << ws, now, result, reading, cycle, sent, fault, connects >>

\* Sleep shortening its sleeps by the time spent pulsing
SleepMinute_Compensated ==
    /\ pc = "sleep60"
    /\ now' = now + (IF sleepIter = 0 THEN SleepTicks ELSE SleepTicks - PulseTicks)
    /\ slept' = slept + (IF sleepIter = 0 THEN SleepTicks ELSE SleepTicks - PulseTicks)
    /\ pc' = "cyan"
    /\ UNCHANGED << dots, ws, result, reading, cycle, sleepIter, sent, fault, connects, pulseAt >>

SleepMinute ==
    /\ pc = "sleep60"
    /\ now' = now + SleepTicks
    /\ slept' = slept + SleepTicks
    /\ pc' = "cyan"
    /\ UNCHANGED << dots, ws, result, reading, cycle, sleepIter, sent, fault, connects, pulseAt >>

SleepPulseOn ==
    /\ pc = "cyan"
    /\ dots' = SetDots(0, 100, 100)
    /\ pulseAt' = Append(pulseAt, slept)
    /\ pc' = "sleep01"
    /\ UNCHANGED << ws, now, result, reading, cycle, sleepIter, sent, fault, connects, slept >>

SleepPulseHold ==
    /\ pc = "sleep01"
    /\ now' = now + PulseTicks
    /\ slept' = slept + PulseTicks
    /\ pc' = "dotsoff"
    /\ UNCHANGED << dots, ws, result, reading, cycle, sleepIter, sent, fault, connects, pulseAt >>

SleepPulseOff ==
    /\ pc = "dotsoff"
    /\ dots' = SetDots(0, 0, 0)
    /\ sleepIter' = sleepIter + 1
    /\ pc' = SleepLoop(sleepIter + 1)
    /\ UNCHANGED << ws, now, result, reading, cycle, sent, fault, connects, slept, pulseAt >>

Next ==
    \/ InitializeDevices
    \/ BootSetDots
    \/ ConnectToSyslog
    \/ WriteBoot
    \/ WriteCsvHeaders
    \/ LoopSetDots
    \/ LoopAcquireData
    \/ WriteCsvData
    \/ LoopClearDots
    \/ SleepMinute
    \/ SleepPulseOn
    \/ SleepPulseHold
    \/ SleepPulseOff

Spec == Init /\ [][Next]_vars

\* time.sleep and every other step of the script returns
FairSpec == Spec /\ WF_vars(Next)

\* ---- reading text back ---------------------------------------------------
IsDigit(ch) ==
    \E d \in 1 .. 10 : DigitChars[d] = ch

DigitVal(ch) ==
    (CHOOSE d \in 1 .. 10 : DigitChars[d] = ch) - 1

IsDigits(s) ==
    /\ Len(s) > 0
    /\ \A i \in 1 .. Len(s) : IsDigit(s[i])

RECURSIVE DecVal(_)
DecVal(s) ==
    IF s = << >> THEN 0
    ELSE DecVal(SubSeq(s, 1, Len(s) - 1)) * 10 + DigitVal(s[Len(s)])

Positions(s, c) ==
    { i \in 1 .. Len(s) : s[i] = c }

\* the index of the n-th occurrence of c in s at or after `from`, 0 if none
RECURSIVE NthPos(_, _, _, _)
NthPos(s, c, n, from) ==
    IF from > Len(s) THEN 0
    ELSE IF s[from] = c
         THEN IF n = 1 THEN from ELSE NthPos(s, c, n - 1, from + 1)
         ELSE NthPos(s, c, n, from + 1)

\* the index of the first occurrence of c in s, 0 if none
FirstPos(s, c) ==
    NthPos(s, c, 1, 1)

RECURSIVE SplitOn(_, _)
SplitOn(s, c) ==
    LET p == FirstPos(s, c)
    IN  IF p = 0 THEN << s >>
        ELSE << SubSeq(s, 1, p - 1) >> \o SplitOn(SubSeq(s, p + 1, Len(s)), c)

Unsigned(f) ==
    IF f # << >> /\ f[1] = "-" THEN SubSeq(f, 2, Len(f)) ELSE f

\* f is a bare decimal number: [-]digits[.digits]
IsNumeric(f) ==
    LET parts == SplitOn(Unsigned(f), ".")
    IN  /\ Len(parts) \in { 1, 2 }
        /\ \A i \in 1 .. Len(parts) : IsDigits(parts[i])

Decimals(f) ==
    LET parts == SplitOn(Unsigned(f), ".")
    IN  IF Len(parts) = 2 THEN Len(parts[2]) ELSE 0

\* the number written in f, in units of 10^-Decimals(f)
Scaled(f) ==
    LET parts == SplitOn(Unsigned(f), ".")
        mag   == DecVal(IF Len(parts) = 2 THEN parts[1] \o parts[2] ELSE parts[1])
    IN  IF f[1] = "-" THEN -mag ELSE mag

\* f shows the value v/8 with d decimals, off by at most half a unit of the last place
Shows(f, v, d) ==
    /\ IsNumeric(f)
    /\ Decimals(f) = d
    /\ Abs(8 * Scaled(f) - v * Pow10(d)) <= 4

IsQuotedTimestamp(f) ==
    /\ Len(f) = 22
    /\ f[1] = "\"" /\ f[22] = "\""
    /\ \A i \in 2 .. 21 : f[i] # "\""
    /\ IsDigits(SubSeq(f, 2, 5)) /\ f[6] = "-" /\ IsDigits(SubSeq(f, 7, 8)) /\ f[9] = "-"
    /\ IsDigits(SubSeq(f, 10, 11)) /\ f[12] = "T" /\ IsDigits(SubSeq(f, 13, 14))
    /\ f[15] = ":" /\ IsDigits(SubSeq(f, 16, 17)) /\ f[18] = ":"
    /\ IsDigits(SubSeq(f, 19, 20)) /\ f[21] = "Z"

\* the PRI of a framed message: the number between "<" and ">"
ParsePri(data) ==
    DecVal(SubSeq(data, 2, FirstPos(data, ">") - 1))

EndsWith(s, tail) ==
    /\ Len(s) >= Len(tail)
    /\ SubSeq(s, Len(s) - Len(tail) + 1, Len(s)) = tail

IsHeaderRow(e) ==
    EndsWith(e.data, CsvHeaders \o << LF >>)

HeaderIndexes ==
    { i \in DOMAIN sent : IsHeaderRow(sent[i]) }

DataIndexes ==
    { i \in DOMAIN sent : sent[i].kind = "data" }

FailedSends ==
    { i \in DOMAIN sent : sent[i].outcome = "fail" }

RunningPcs ==
    { "busy", "acquire", "write", "clear", "sleep60", "cyan", "sleep01", "dotsoff" }

SleepPcs ==
    { "sleep60", "cyan", "sleep01", "dotsoff" }

\* ---- claims --------------------------------------------------------------

\* C1: when the particulate sensor read raises in a cycle, no record is sent
\* for that cycle, the program does not terminate, and it goes on to the
\* next cycle.
C1_SensorFaultSkipsCycle ==
    fault = "SensorFault" =>
        /\ pc \in RunningPcs
        /\ \A i \in DataIndexes : sent[i].cycle # cycle

\* C2: once a send has failed and the script has left that send, exactly one
\* reconnect attempt has been made for each failed send.
C2_OneReconnectPerSendFailure ==
    (FailedSends # {} /\ pc \notin { "boot", "headers", "write" }) =>
        connects = 1 + Cardinality(FailedSends)

\* C4: no data row is sent before the header row, the header row is never
\* sent twice, and once the loop is running the header row is the message
\* that directly follows the BOOT notice.
C4_HeaderOnceBeforeData ==
    /\ \A i \in DataIndexes : \E j \in HeaderIndexes : j < i
    /\ Cardinality(HeaderIndexes) <= 1
    /\ pc \in RunningPcs =>
          /\ HeaderIndexes = { 2 }
          /\ sent[1].kind = "boot"

C4_Witness ==
    /\ Cardinality(DataIndexes) = MaxCycles
    /\ HeaderIndexes = { 2 }
    /\ pc = "busy"

\* C5: a step taken inside the running loop that raises a sensor fault or a
\* transport fault, or raises nothing, leaves the program inside the loop.
C5_RunningNeverEnds ==
    [][(pc \in RunningPcs /\ fault' \in { "none", "SensorFault", "TransportFault" })
          => pc' \in RunningPcs]_vars

\* C6: the record AcquireData has just returned has exactly 14 comma-separated fields:
\* the quoted timestamp, then temperature (1 decimal), relative humidity (1),
\* pressure (0), typical particle size (3), the four mass concentrations
\* 1.0, 2.5, 4.0, 10 (1 decimal each) and the five number concentrations
\* 0.5, 1.0, 2.5, 4.0, 10 (0 decimals each), each a bare number showing the
\* value that was read.
C6_RecordFields ==
    pc = "write" =>
        LET f == SplitOn(result, ",")
            x == reading.x
        IN  /\ Len(f) = 14
            /\ IsQuotedTimestamp(f[1])
            /\ Shows(f[2], reading.temperature, 1)
            /\ Shows(f[3], reading.relative_humidity, 1)
            /\ Shows(f[4], reading.pressure, 0)
            /\ Shows(f[5], x["tps"], 3)
            /\ Shows(f[6], x["pm10 standard"], 1)
            /\ Shows(f[7], x["pm25 standard"], 1)
            /\ Shows(f[8], x["pm40 standard"], 1)
            /\ Shows(f[9], x["pm100 standard"], 1)
            /\ Shows(f[10], x["particles 05um"], 0)
            /\ Shows(f[11], x["particles 10um"], 0)
            /\ Shows(f[12], x["particles 25um"], 0)
            /\ Shows(f[13], x["particles 40um"], 0)
            /\ Shows(f[14], x["particles 100um"], 0)

C6_Witness ==
    /\ pc = "write"
    /\ result # << >>
    /\ reading.temperature < 0

\* C7: every message handed to the socket ends with a line feed and has no
\* other line feed in it.
C7_OneLineFeed ==
    \A i \in DOMAIN sent : Positions(sent[i].data, LF) = { Len(sent[i].data) }

C7_Witness ==
    /\ Len(sent) >= 3
    /\ sent[1].kind = "boot" /\ sent[2].kind = "header" /\ sent[3].kind = "data"

\* C8: the PRI written in every framed message is facility*8+severity of
\* that message and lies in 0..191.
C8_Priority ==
    \A i \in DOMAIN sent :
        LET pri == ParsePri(sent[i].data)
        IN  /\ sent[i].data[1] = "<"
            /\ pri = sent[i].facility * 8 + sent[i].severity
            /\ pri \in 0 .. 191

C8_Witness ==
    /\ \E i \in DOMAIN sent : sent[i].severity = NOTICE /\ ParsePri(sent[i].data) = 157
    /\ \E i \in DOMAIN sent : sent[i].severity = INFO /\ ParsePri(sent[i].data) = 158

\* C9: Sleep pulses the indicator once per iteration, returns after exactly
\* SLEEP_MINS = 5 pulses with the indicator off, and always returns.
C9_SleepPulses ==
    /\ [](pc \in SleepPcs =>
            /\ sleepIter \in SleepRange
            /\ Len(pulseAt) = sleepIter + (IF pc \in { "sleep01", "dotsoff" } THEN 1 ELSE 0))
    /\ [][(pc \in SleepPcs /\ pc' \notin SleepPcs) =>
            /\ pc' = "busy"
            /\ Len(pulseAt') = 5
            /\ dots' = SetDots(0, 0, 0)]_vars
    /\ (pc \in SleepPcs) ~> (pc = "busy")

C9_Witness ==
    /\ pc = "busy"
    /\ cycle >= 1
    /\ Len(pulseAt) = 5
    /\ dots = SetDots(0, 0, 0)

FrameParts(data) ==
    SplitOn(data, " ")

\* the bytes of message e that reached the collector
Delivered(e) ==
    SubSeq(e.data, 1, e.written)

\* C11: the session only goes Disconnected -> Connected by a call of
\* ConnectToSyslog, Connected -> Faulted by a failed send, and
\* Faulted -> Connected by a call of ConnectToSyslog; a send is only issued
\* on a Connected session, so none follows a failed send.
C11_SessionTransitions ==
    [][/\ ws' # ws =>
            \/ ws = "Disconnected" /\ ws' = "Connected" /\ connects' = connects + 1
            \/ /\ ws = "Connected" /\ ws' = "Faulted"
               /\ Len(sent') = Len(sent) + 1
               /\ sent'[Len(sent')].outcome = "fail"
            \/ ws = "Faulted" /\ ws' = "Connected" /\ connects' = connects + 1
       /\ sent' # sent =>
            /\ ws = "Connected"
            /\ \A i \in DOMAIN sent : sent[i].outcome # "fail"]_vars

C11_Witness ==
    /\ ws = "Faulted"
    /\ Len(sent) >= 3
    /\ sent[Len(sent)].outcome = "fail"

\* C12: every send that did not fail wrote all the bytes of its message.
C12_SendFullyOrFails ==
    \A i \in DOMAIN sent :
        sent[i].outcome # "fail" => sent[i].written = Len(sent[i].data)

\* C13: the bytes of every data message that reached the collector are one
\* complete line: terminated by the line feed and with a 14-field record.
C13_CompleteDataLines ==
    \A i \in DataIndexes :
        sent[i].written > 0 =>
            LET d == Delivered(sent[i])
                parts == FrameParts(d)
            IN  /\ d[Len(d)] = LF
                /\ Len(parts) = 8
                /\ Len(SplitOn(parts[8], ",")) = 14

IsBootNotice(e) ==
    /\ Len(e.message) > 5
    /\ SubSeq(e.message, 1, 5) = << "B", "O", "O", "T", " " >>

\* C14: nothing is connected before the devices are initialised, nothing is
\* sent before the session is connected, the first message is the BOOT
\* notice, the second the header row, and the loop (and with it every
\* sensor read) starts only after both.
C14_BootOrder ==
    /\ connects > 0 => dots # << >>
    /\ sent # << >> => (connects > 0 /\ ws # "Disconnected" /\ IsBootNotice(sent[1]))
    /\ Len(sent) >= 2 => IsHeaderRow(sent[2])
    /\ (pc \in RunningPcs \/ cycle > 0 \/ reading # << >> \/ result # << >>) =>
          /\ Len(sent) >= 2
          /\ sent[1].outcome # "fail"
          /\ sent[2].outcome # "fail"

C14_Witness ==
    /\ pc = "write"
    /\ cycle = 1
    /\ Len(sent) = 2
    /\ reading # << >>

\* C15: every message is sent with facility LOCAL3; the header row and the
\* data rows with severity INFO, the BOOT notice with severity NOTICE, which
\* differs from INFO.
C15_FacilityAndSeverities ==
    /\ NOTICE # INFO
    /\ \A i \in DOMAIN sent :
          /\ sent[i].facility = LOCAL3
          /\ sent[i].kind \in { "boot", "header", "data" }
          /\ sent[i].kind = "boot" => (sent[i].severity = NOTICE /\ IsBootNotice(sent[i]))
          /\ sent[i].kind # "boot" => (sent[i].severity = INFO /\ ~IsBootNotice(sent[i]))

C15_Witness ==
    /\ \E i \in DOMAIN sent : sent[i].kind = "boot" /\ sent[i].severity = NOTICE
    /\ \E i \in DOMAIN sent : sent[i].kind = "header" /\ sent[i].severity = INFO
    /\ \E i \in DataIndexes : sent[i].severity = INFO /\ sent[i].cycle = MaxCycles

\* C16: the blue busy indicator is only lit while the script is in the
\* acquire / send part of a cycle: it is cleared when a cycle ends, also
\* when it ends by a sensor fault or a failed send.
C16_BusyIndicatorCleared ==
    pc \notin { "acquire", "write", "clear" } => dots # SetDots(0, 0, 255)

\* C17: after a failed ConnectToSyslog the program is not running: it has
\* sent no message, started no cycle and read no sensor.
C17_ConnectFailureFatal ==
    fault = "ConnectFault" =>
        /\ pc = "crashed"
        /\ sent = << >>
        /\ cycle = 0
        /\ reading = << >>

C17_Witness ==
    /\ fault = "ConnectFault"
    /\ connects = 1
    /\ pc = "crashed"

\* the data messages sent in cycle c
DataOfCycle(c) ==
    { i \in DataIndexes : sent[i].cycle = c }

\* C18: a cycle sends at most one data record; none before its acquisition
\* has succeeded, exactly one, carrying the record just acquired, by the
\* time it clears the indicator and sleeps; the send of a cycle is the only
\* thing that adds a data record, so no record is sent again later.
C18_OneSendPerCycle ==
    /\ [](/\ \A c \in 1 .. MaxCycles + 1 : Cardinality(DataOfCycle(c)) <= 1
          /\ \A i \in DataIndexes : sent[i].cycle \in 1 .. cycle
          /\ pc \in { "acquire", "write" } => DataOfCycle(cycle) = {}
          /\ pc \in { "clear" } \cup SleepPcs =>
                \E i \in DataOfCycle(cycle) :
                    /\ i = Len(sent)
                    /\ EndsWith(sent[i].data, << " " >> \o result \o << LF >>))
    /\ [][Len(sent') > Len(sent) /\ pc \in RunningPcs =>
            /\ pc = "write"
            /\ Len(sent') = Len(sent) + 1
            /\ sent'[Len(sent')].cycle = cycle
            /\ EndsWith(sent'[Len(sent')].data, << " " >> \o result \o << LF >>)]_vars

C18_Witness ==
    /\ pc \in SleepPcs
    /\ cycle = 2
    /\ Cardinality(DataOfCycle(1)) = 1
    /\ Cardinality(DataOfCycle(2)) = 1
    /\ \E i \in DataOfCycle(1), j \in DataOfCycle(2) :
          sent[i].message # sent[j].message

\* seconds of the day in a timestamp YYYY-MM-DDThh:mm:ssZ
TimeOfDay(ts) ==
    DecVal(SubSeq(ts, 12, 13)) * 3600 + DecVal(SubSeq(ts, 15, 16)) * 60
    + DecVal(SubSeq(ts, 18, 19))

\* the timestamp of a frame: the 20 characters after "<PRI>1 "
FrameTimestamp(data) ==
    SubSeq(data, FirstPos(data, ">") + 3, FirstPos(data, ">") + 22)

\* the timestamp in the first column of a record, between its quotes
BodyTimestamp(record) ==
    SubSeq(record, 2, 21)

\* C19: in every data message the frame's timestamp is of the same day as,
\* and not earlier than, the timestamp in the record it carries.
C19_FrameNotBeforeBody ==
    \A i \in DataIndexes :
        LET frame == FrameTimestamp(sent[i].data)
            body  == BodyTimestamp(sent[i].message)
        IN  /\ frame[20] = "Z" /\ body[20] = "Z"
            /\ sent[i].message[1] = "\"" /\ sent[i].message[22] = "\""
            /\ SubSeq(frame, 1, 10) = SubSeq(body, 1, 10)
            /\ TimeOfDay(frame) >= TimeOfDay(body)

\* a data message whose two timestamps differ
C19_Witness ==
    \E i \in DataIndexes :
        TimeOfDay(FrameTimestamp(sent[i].data)) > TimeOfDay(BodyTimestamp(sent[i].message))
====
